---- MODULE Spec2Model ----
(***************************************************************************)
(* p5.prototype.orbitControl, the per-frame orbit / pan / zoom camera      *)
(* controller, in its two revisions:                                       *)
(*   "scroll"  src/unnamed/part_000          right-button pan, wheel zoom  *)
(*   "shift"   src/src/webgl/interaction.js  shift + button pan            *)
(*                                                                         *)
(* JavaScript Numbers are modelled in fixed point: a length is an integer  *)
(* count of 1/LS world units, an angle an integer count of 1/AS radians,   *)
(* and a sine, cosine or unit-vector component an integer count of 1/AS.   *)
(* Math.sqrt, Math.sin, Math.cos, Math.acos and Math.atan2 are computed at *)
(* that resolution (Taylor series, bisection), rounding to nearest.        *)
(***************************************************************************)
EXTENDS Integers, Sequences, FiniteSets

\* ------------------------------------------------------------ fixed point

\* resolution of a length: 1 world unit (and 1 pixel of pan) = LS
LS == 10
\* resolution of an angle and of a trigonometric value: 1 radian = AS
AS == 10000
\* Math.PI at resolution 1/AS
PI == 31416
HALF_PI == PI \div 2
QUARTER_PI == PI \div 4
TWO_PI == 2 * PI

Abs(a) == IF a < 0 THEN -a ELSE a
Max2(a, b) == IF a >= b THEN a ELSE b
Min2(a, b) == IF a <= b THEN a ELSE b

\* a / b rounded to the nearest integer (b > 0), halves away from zero
RDiv(a, b) == IF a >= 0 THEN (2 * a + b) \div (2 * b) ELSE -((2 * (-a) + b) \div (2 * b))

\* the product of two values of scale AS, at scale AS
FMul(a, b) == RDiv(a * b, AS)

\* Math.sqrt on a non-negative integer, rounded down: bisection on [lo, hi)
RECURSIVE SqrtIter(_, _, _)
SqrtIter(n, lo, hi) ==
  IF hi - lo <= 1 THEN lo
  ELSE LET mid == (lo + hi) \div 2
       IN  IF mid * mid <= n THEN SqrtIter(n, mid, hi) ELSE SqrtIter(n, lo, mid)

\* Math.sqrt rounded to nearest
Sqrt(n) ==
  LET r == SqrtIter(n, 0, 46341)
  IN  IF n - r * r > r THEN r + 1 ELSE r

\* sin x for 0 <= x <= pi/4: x - x^3/3! + x^5/5! - x^7/7!
SinTaylor(x) ==
  LET x2 == FMul(x, x)
      x3 == FMul(x2, x)
      x5 == FMul(x3, x2)
      x7 == FMul(x5, x2)
  IN  x - RDiv(x3, 6) + RDiv(x5, 120) - RDiv(x7, 5040)

\* cos x for 0 <= x <= pi/4: 1 - x^2/2! + x^4/4! - x^6/6!
CosTaylor(x) ==
  LET x2 == FMul(x, x)
      x4 == FMul(x2, x2)
      x6 == FMul(x4, x2)
  IN  AS - RDiv(x2, 2) + RDiv(x4, 24) - RDiv(x6, 720)

\* sin on the first quadrant, 0 <= x <= pi/2
SinQ(x) == IF x <= QUARTER_PI THEN SinTaylor(x) ELSE CosTaylor(HALF_PI - x)

\* an angle reduced to [0, 2 pi)
Wrap(a) == a % TWO_PI

\* Math.sin
Sin(a) ==
  LET w == Wrap(a)
  IN  IF w <= HALF_PI THEN SinQ(w)
      ELSE IF w <= PI THEN SinQ(PI - w)
      ELSE IF w <= PI + HALF_PI THEN -SinQ(w - PI)
      ELSE -SinQ(TWO_PI - w)

\* Math.cos
Cos(a) == Sin(a + HALF_PI)

\* the least phi of [lo, hi] with cos phi <= v: cos decreases on [0, pi/2]
RECURSIVE AcosIter(_, _, _)
AcosIter(v, lo, hi) ==
  IF hi - lo <= 1
  THEN IF Cos(lo) <= v THEN lo ELSE hi
  ELSE LET mid == (lo + hi) \div 2
       IN  IF Cos(mid) > v THEN AcosIter(v, mid, hi) ELSE AcosIter(v, lo, mid)

\* Math.acos on [0, 1], tabulated once
AcosTable == [v \in 0..AS |-> AcosIter(v, 0, HALF_PI)]

\* Math.acos on [-1, 1]: acos(-v) = pi - acos(v)
Acos(v) == IF v >= 0 THEN AcosTable[v] ELSE PI - AcosTable[-v]

\* the angle t of [lo, hi] within [0, pi/4] with tan t nearest q / AS
RECURSIVE AtanIter(_, _, _)
AtanIter(q, lo, hi) ==
  IF hi - lo <= 1
  THEN IF Abs(AS * Sin(lo) - q * Cos(lo)) <= Abs(AS * Sin(hi) - q * Cos(hi))
       THEN lo ELSE hi
  ELSE LET mid == (lo + hi) \div 2
       IN  IF AS * Sin(mid) <= q * Cos(mid)
           THEN AtanIter(q, mid, hi) ELSE AtanIter(q, lo, mid)

\* atan on [0, 1], tabulated once
AtanTable == [q \in 0..AS |-> AtanIter(q, 0, QUARTER_PI)]

\* Math.atan2(y, x): the angle of the point (x, y), in (-pi, pi]; 0 at (0, 0)
Atan2(y, x) ==
  LET ay == Abs(y)
      ax == Abs(x)
      oct == IF ay = 0 /\ ax = 0 THEN 0
             ELSE IF ay <= ax THEN AtanTable[RDiv(ay * AS, ax)]
             ELSE HALF_PI - AtanTable[RDiv(ax * AS, ay)]
      half == IF x < 0 THEN PI - oct ELSE oct
  IN  IF y < 0 THEN -half ELSE half

\* ------------------------------------------------------------ bounds

\* frames drawn in one run
MaxFrames == 2

\* ------------------------------------------------------------ constants

\* p5's LEFT and RIGHT, the values of mouseButton; "none" before any press
LEFT == "left"
RIGHT == "right"
NoButton == "none"

\* the radius limits and the phi substituted for a phi <= 0
MinRadius == 50 * LS
MaxRadius == 2000 * LS
PhiEpsilon == AS \div 1000
\* the zoom step
ZoomAmount == 10 * LS

\* the pointer positions and wheel deltas sampled
MousePositions == {<<0, 0>>, <<3, 2>>, <<0, 16>>}
WheelDeltas == {-2, 0, 2, 3}

\* the sketches run: the arguments draw() passes to orbitControl, and the eye
\* and center set with camera() before the first frame, in world units
Sketches ==
  { <<<<>>,      <<0, 0, 800>>,     <<0, 0, 0>>>>,
    <<<<-2>>,    <<30, 20, 5>>,     <<10, 0, -5>>>>,
    <<<<1, -1>>, <<0, 1260, 1680>>, <<0, 0, 0>>>>,
    <<<<>>,      <<0, 100, 0>>,     <<0, 0, 0>>>> }

Variants == {"scroll", "shift"}

\* ------------------------------------------------------------ state

VARIABLES
  variant,            \* which revision of orbitControl the sketch runs
  args,               \* the arguments the sketch's draw() passes to orbitControl
  camera,             \* _renderer.cameraX, cameraY, cameraZ
  cameraCenter,       \* _renderer.cameraCenterX, cameraCenterY, cameraCenterZ
  mouseX, mouseY, pmouseX, pmouseY,
  mouseIsPressed, mouseButton,
  mouseWheelDeltaY, pmouseWheelDeltaY,
  shiftDown,          \* keyIsDown(SHIFT)
  frameCount,
  cameraCalls,        \* calls of this.camera so far
  last,               \* the locals of the latest orbitControl call
  prev                \* the locals of the call before it

vars == <<variant, args, camera, cameraCenter, mouseX, mouseY, pmouseX, pmouseY,
          mouseIsPressed, mouseButton, mouseWheelDeltaY, pmouseWheelDeltaY,
          shiftDown, frameCount, cameraCalls, last, prev>>

\* ------------------------------------------------------------ vectors

VSub(a, b) == <<a[1] - b[1], a[2] - b[2], a[3] - b[3]>>
VAdd(a, b) == <<a[1] + b[1], a[2] + b[2], a[3] + b[3]>>
VScale(a, k) == <<a[1] * k, a[2] * k, a[3] * k>>

\* a cross b, with the terms in the order the code writes them
Cross(a, b) ==
  <<a[2] * b[3] - a[3] * b[2], -a[1] * b[3] + a[3] * b[1], a[1] * b[2] - a[2] * b[1]>>

\* |eye - center|
Distance(eye, center) ==
  LET d == VSub(eye, center)
  IN  Sqrt(d[1] * d[1] + d[2] * d[2] + d[3] * d[3])

\* ------------------------------------------------------------ orbitControl

\* sensitivityX defaults to 1, sensitivityY to sensitivityX
SensitivityX(a) == IF Len(a) < 1 THEN 1 ELSE a[1]
SensitivityY(a) == IF Len(a) < 2 THEN SensitivityX(a) ELSE a[2]

\* the largest magnitude among the components of v
MaxAbs(v) ==
  IF Len(v) = 2 THEN Max2(Abs(v[1]), Abs(v[2]))
  ELSE Max2(Abs(v[1]), Max2(Abs(v[2]), Abs(v[3])))

SumSq(v) ==
  IF Len(v) = 2 THEN v[1] * v[1] + v[2] * v[2]
  ELSE v[1] * v[1] + v[2] * v[2] + v[3] * v[3]

\* v with a common power of its exponent taken out, as a float's mantissa:
\* dividing a vector by its own length does not depend on its scale
Mantissa(v) ==
  LET k == (MaxAbs(v) \div 20000) + 1
  IN  [i \in DOMAIN v |-> RDiv(v[i], k)]

\* mag = Math.sqrt(sum of squares); if (mag !== 0) every component /= mag
Normalize(v) ==
  LET m == Mantissa(v)
      mag == Sqrt(SumSq(m))
  IN  IF mag # 0 THEN [i \in DOMAIN v |-> RDiv(m[i] * AS, mag)] ELSE v

\* deltaX, deltaY of the pan: -1 * sensitivity * (mouse - pmouse), in pixels
PanDelta(s, d) == -1 * s * d

\* right-button revision: the offset along world X and Z that panning adds;
\* x and y are normalized over their X and Z components only
PanOffsetScroll(cam, center, sx, sy, dx, dy) ==
  LET z == VSub(cam, center)
      x == Cross(<<0, 1, 0>>, z)
      y == Cross(z, x)
      xn == Normalize(<<x[1], x[3]>>)
      yn == Normalize(<<y[1], y[3]>>)
      deltaX == PanDelta(sx, dx)
      deltaY == PanDelta(sy, dy)
  IN  <<RDiv(LS * (deltaX * xn[1] + deltaY * yn[1]), AS),
        0,
        RDiv(LS * (deltaX * xn[2] + deltaY * yn[2]), AS)>>

\* shift revision: x and y are normalized over all three components
PanOffsetShift(cam, center, sx, sy, dx, dy) ==
  LET z == VSub(cam, center)
      x == Cross(<<0, 1, 0>>, z)
      y == Cross(z, x)
      xn == Normalize(x)
      yn == Normalize(y)
      deltaX == PanDelta(sx, dx)
      deltaY == PanDelta(sy, dy)
  IN  <<RDiv(LS * (deltaX * xn[1] + deltaY * yn[1]), AS),
        0,
        RDiv(LS * (deltaX * xn[3] + deltaY * yn[3]), AS)>>

\* PanCenter with the center left where it was
PanCenterFixed(center, off) == center

\* camX += ..., camZ += ...
PanCamera(cam, off) == VAdd(cam, off)
\* centerX += ..., centerZ += ...
PanCenter(center, off) == VAdd(center, off)

\* DeltaAngle by the size of the pointer's move, its direction lost
DeltaAngleUnsigned(s, d) == s * Abs(d) * (AS \div 10)

\* DeltaAngle with a move of more than 200 squared pixels discarded
DeltaAngleGuarded(s, d) == IF d * d > 200 THEN 0 ELSE s * d * (AS \div 10)

\* deltaTheta, deltaPhi: 0.1 * sensitivity * (mouse - pmouse)
DeltaAngle(s, d) == s * d * (AS \div 10)

\* camRadius, camTheta, camPhi of diff = cam - center
Spherical(diff) ==
  LET camRadius == Sqrt(diff[1] * diff[1] + diff[2] * diff[2] + diff[3] * diff[3])
  IN  [radius |-> camRadius,
       theta |-> Atan2(diff[1], diff[3]),
       phi |-> Acos(Max2(-AS, Min2(AS, RDiv(diff[2] * AS, camRadius))))]

\* ZoomStep without the hasScrolled test around it
ZoomStepUngated(camRadius, hasScrolled, wheel) ==
  IF wheel > 1 THEN camRadius + ZoomAmount
  ELSE IF wheel < -1 THEN camRadius - ZoomAmount
  ELSE camRadius

\* if (hasScrolled) { > 1: camRadius += 10; < -1: camRadius -= 10 }
ZoomStep(camRadius, hasScrolled, wheel) ==
  IF hasScrolled
  THEN IF wheel > 1 THEN camRadius + ZoomAmount
       ELSE IF wheel < -1 THEN camRadius - ZoomAmount
       ELSE camRadius
  ELSE camRadius

\* ClampRadius without the test for too-large values
ClampRadiusNoUpper(camRadius) ==
  IF camRadius < MinRadius THEN MinRadius ELSE camRadius

\* check for too-small and too-large radius values
ClampRadius(camRadius) ==
  IF camRadius > MaxRadius THEN MaxRadius
  ELSE IF camRadius < MinRadius THEN MinRadius
  ELSE camRadius

\* ClampPhi with camPhi < 0 for camPhi <= 0
ClampPhiStrict(camPhi) ==
  IF camPhi > PI THEN PI
  ELSE IF camPhi < 0 THEN PhiEpsilon
  ELSE camPhi

\* prevent rotation over the zenith / under bottom
ClampPhi(camPhi) ==
  IF camPhi > PI THEN PI
  ELSE IF camPhi <= 0 THEN PhiEpsilon
  ELSE camPhi

\* Cartesian with _z taken from camRadius for sinPhiRadius
CartesianFlat(camRadius, camTheta, camPhi) ==
  LET sinPhiRadius == FMul(Sin(camPhi), camRadius)
  IN  <<FMul(sinPhiRadius, Sin(camTheta)),
        FMul(Cos(camPhi), camRadius),
        FMul(camRadius, Cos(camTheta))>>

\* turn back into Cartesian coordinates: _x, _y, _z
Cartesian(camRadius, camTheta, camPhi) ==
  LET sinPhiRadius == FMul(Sin(camPhi), camRadius)
  IN  <<FMul(sinPhiRadius, Sin(camTheta)),
        FMul(Cos(camPhi), camRadius),
        FMul(sinPhiRadius, Cos(camTheta))>>

\* GateScroll passing every frame
GateAlways(hasScrolled, pressed) == TRUE

\* AddsMouseMovement without the test for the left button
AddsMouseMovementAlways(button) == TRUE

\* right-button revision: the conditions of its four if statements
HasScrolled(wheel, pwheel) == wheel # pwheel
GateScroll(hasScrolled, pressed) == hasScrolled \/ pressed
PanTriggerScroll(button) == button = RIGHT
RotateTriggerScroll(button, hasScrolled) == button = LEFT \/ hasScrolled
AddsMouseMovement(button) == button = LEFT

\* shift revision: the conditions of its if / else if
PanTriggerShift(shift, pressed) == shift /\ pressed
RotateTriggerShift(shift, pressed) == ~PanTriggerShift(shift, pressed) /\ pressed

\* the locals of a call, as `last` keeps them: the input sample i it read,
\* what it did, and the eye and center it ended with
Locals(i, active, pan, rot, adds, sph, theta, phiRaw, zoomed, radius, phi, eye, center) ==
  [called |-> TRUE, active |-> active, pan |-> pan, rot |-> rot,
   rotated |-> rot /\ adds, scrolled |-> i.hasScrolled,
   pressed |-> mouseIsPressed, button |-> mouseButton, shift |-> shiftDown,
   dx |-> i.dx, dy |-> i.dy, sx |-> i.sx, sy |-> i.sy,
   wheel |-> mouseWheelDeltaY, pwheel |-> pmouseWheelDeltaY,
   eye0 |-> camera, center0 |-> cameraCenter,
   radius0 |-> sph.radius, theta0 |-> sph.theta, phi0 |-> sph.phi,
   theta |-> theta, phiRaw |-> phiRaw, zoomed |-> zoomed,
   radius |-> radius, phi |-> phi,
   eye |-> eye, center |-> center,
   cameraCalled |-> active]

\* the spherical locals of a call that does not reach the rotation block
NoSpherical == [radius |-> 0, theta |-> 0, phi |-> 0]

\* a call that did not rotate: cam and center as the pan block, if any, left them
NotRotated(i, active, pan, cam, center) ==
  Locals(i, active, pan, FALSE, FALSE, NoSpherical, 0, 0, 0, 0, 0, cam, center)

NoCall ==
  [called |-> FALSE, active |-> FALSE, pan |-> FALSE, rot |-> FALSE,
   rotated |-> FALSE, scrolled |-> FALSE,
   pressed |-> FALSE, button |-> NoButton, shift |-> FALSE,
   dx |-> 0, dy |-> 0, sx |-> 0, sy |-> 0, wheel |-> 0, pwheel |-> 0,
   eye0 |-> <<0, 0, 0>>, center0 |-> <<0, 0, 0>>,
   radius0 |-> 0, theta0 |-> 0, phi0 |-> 0, theta |-> 0, phiRaw |-> 0,
   zoomed |-> 0, radius |-> 0, phi |-> 0,
   eye |-> <<0, 0, 0>>, center |-> <<0, 0, 0>>, cameraCalled |-> FALSE]

\* the input sample a call reads, with the sensitivities defaulted
Sample ==
  [sx |-> SensitivityX(args), sy |-> SensitivityY(args),
   dx |-> mouseX - pmouseX, dy |-> mouseY - pmouseY,
   hasScrolled |-> HasScrolled(mouseWheelDeltaY, pmouseWheelDeltaY)]

\* right-button revision, the end of the rotation block: the clamped radius
\* and phi turned back into the eye, about the center
ReconvertScroll(i, pan, adds, center, sph, theta, phiRaw, zoomed, radius, phi) ==
  Locals(i, TRUE, pan, TRUE, adds, sph, theta, phiRaw, zoomed, radius, phi,
         VAdd(Cartesian(radius, theta, phi), center), center)

\* right-button revision, the rotation block once the spherical coordinates
\* are known: the mouse movement, the zoom step, the clamps
UpdateScroll(i, pan, adds, center, sph, theta, phiRaw, zoomed) ==
  ReconvertScroll(i, pan, adds, center, sph, theta, phiRaw, zoomed,
                  ClampRadius(zoomed), ClampPhi(phiRaw))

SphericalScroll(i, pan, adds, center, sph) ==
  UpdateScroll(i, pan, adds, center, sph,
               IF adds THEN sph.theta + DeltaAngle(i.sx, i.dx) ELSE sph.theta,
               IF adds THEN sph.phi + DeltaAngle(i.sy, i.dy) ELSE sph.phi,
               ZoomStep(sph.radius, i.hasScrolled, mouseWheelDeltaY))

\* right-button revision, from "rotation & zoom" on, with cam and center as
\* the pan block, if any, left them
RotateScroll(i, pan, cam, center) ==
  IF RotateTriggerScroll(mouseButton, i.hasScrolled)
  THEN SphericalScroll(i, pan, AddsMouseMovement(mouseButton), center,
                       Spherical(VSub(cam, center)))
  ELSE NotRotated(i, TRUE, pan, cam, center)

\* right-button revision, the pan block with its offset
PanScroll(i, off) ==
  RotateScroll(i, TRUE, PanCamera(camera, off), PanCenter(cameraCenter, off))

\* orbitControl of the right-button revision on the sample i
OrbitControlScrollOn(i) ==
  IF GateScroll(i.hasScrolled, mouseIsPressed)
  THEN IF PanTriggerScroll(mouseButton)
       THEN PanScroll(i, PanOffsetScroll(camera, cameraCenter, i.sx, i.sy, i.dx, i.dy))
       ELSE RotateScroll(i, FALSE, camera, cameraCenter)
  ELSE NotRotated(i, FALSE, FALSE, camera, cameraCenter)

\* orbitControl of the right-button revision on the current state
OrbitControlScroll == OrbitControlScrollOn(Sample)

\* shift revision, the pan branch with its offset
PanShift(i, off) ==
  NotRotated(i, TRUE, TRUE, PanCamera(camera, off), PanCenter(cameraCenter, off))

\* shift revision, the end of the rotate branch
ReconvertShift(i, sph, theta, phiRaw, phi) ==
  Locals(i, TRUE, FALSE, TRUE, TRUE, sph, theta, phiRaw, sph.radius, sph.radius,
         phi, VAdd(Cartesian(sph.radius, theta, phi), cameraCenter), cameraCenter)

UpdateShift(i, sph, theta, phiRaw) ==
  ReconvertShift(i, sph, theta, phiRaw, ClampPhi(phiRaw))

\* shift revision, the rotate branch once the spherical coordinates are known
SphericalShift(i, sph) ==
  UpdateShift(i, sph, sph.theta + DeltaAngle(i.sx, i.dx),
              sph.phi + DeltaAngle(i.sy, i.dy))

\* orbitControl of the shift revision on the sample i
OrbitControlShiftOn(i) ==
  IF PanTriggerShift(shiftDown, mouseIsPressed)
  THEN PanShift(i, PanOffsetShift(camera, cameraCenter, i.sx, i.sy, i.dx, i.dy))
  ELSE IF RotateTriggerShift(shiftDown, mouseIsPressed)
       THEN SphericalShift(i, Spherical(VSub(camera, cameraCenter)))
       ELSE NotRotated(i, FALSE, FALSE, camera, cameraCenter)

\* orbitControl of the shift revision on the current state
OrbitControlShift == OrbitControlShiftOn([Sample EXCEPT !.hasScrolled = FALSE])

\* ------------------------------------------------------------ actions

Init ==
  /\ variant \in Variants
  /\ \E s \in Sketches :
       /\ args = s[1]
       /\ camera = VScale(s[2], LS)
       /\ cameraCenter = VScale(s[3], LS)
  /\ mouseX = 0 /\ mouseY = 0 /\ pmouseX = 0 /\ pmouseY = 0
  /\ mouseIsPressed = FALSE /\ mouseButton = NoButton
  /\ mouseWheelDeltaY = 0 /\ pmouseWheelDeltaY = 0
  /\ shiftDown = FALSE
  /\ frameCount = 0
  /\ cameraCalls = 0
  /\ last = NoCall
  /\ prev = NoCall

\* a button goes down: mouseIsPressed, and mouseButton names it from now on
MousePressed(b) ==
  /\ frameCount < MaxFrames
  /\ ~mouseIsPressed
  /\ mouseIsPressed' = TRUE
  /\ mouseButton' = b
  /\ UNCHANGED <<variant, args, camera, cameraCenter, mouseX, mouseY, pmouseX,
                 pmouseY, mouseWheelDeltaY, pmouseWheelDeltaY, shiftDown,
                 frameCount, cameraCalls, last, prev>>

\* the button goes up: mouseButton keeps the button pressed last
MouseReleased ==
  /\ frameCount < MaxFrames
  /\ mouseIsPressed
  /\ mouseIsPressed' = FALSE
  /\ UNCHANGED <<variant, args, camera, cameraCenter, mouseX, mouseY, pmouseX,
                 pmouseY, mouseButton, mouseWheelDeltaY, pmouseWheelDeltaY,
                 shiftDown, frameCount, cameraCalls, last, prev>>

\* the pointer moves
MouseMoved(p) ==
  /\ frameCount < MaxFrames
  /\ <<mouseX, mouseY>> = <<pmouseX, pmouseY>>
  /\ p # <<mouseX, mouseY>>
  /\ mouseX' = p[1]
  /\ mouseY' = p[2]
  /\ UNCHANGED <<variant, args, camera, cameraCenter, pmouseX, pmouseY,
                 mouseIsPressed, mouseButton, mouseWheelDeltaY,
                 pmouseWheelDeltaY, shiftDown, frameCount, cameraCalls, last, prev>>

\* the wheel turns (the right-button revision reads it)
MouseWheel(d) ==
  /\ frameCount < MaxFrames
  /\ variant = "scroll"
  /\ mouseWheelDeltaY = pmouseWheelDeltaY
  /\ d # mouseWheelDeltaY
  /\ mouseWheelDeltaY' = d
  /\ UNCHANGED <<variant, args, camera, cameraCenter, mouseX, mouseY, pmouseX,
                 pmouseY, mouseIsPressed, mouseButton, pmouseWheelDeltaY,
                 shiftDown, frameCount, cameraCalls, last, prev>>

\* shift goes down or up (the shift revision reads it)
ShiftKey ==
  /\ frameCount < MaxFrames
  /\ variant = "shift"
  /\ shiftDown' = ~shiftDown
  /\ UNCHANGED <<variant, args, camera, cameraCenter, mouseX, mouseY, pmouseX,
                 pmouseY, mouseIsPressed, mouseButton, mouseWheelDeltaY,
                 pmouseWheelDeltaY, frameCount, cameraCalls, last, prev>>

\* after draw() the current sample becomes the previous one
NextSample ==
  /\ pmouseX' = mouseX
  /\ pmouseY' = mouseY
  /\ pmouseWheelDeltaY' = mouseWheelDeltaY

\* this.camera(...) stores the eye and center it is given
CameraSink(r) ==
  /\ camera' = IF r.cameraCalled THEN r.eye ELSE camera
  /\ cameraCenter' = IF r.cameraCalled THEN r.center ELSE cameraCenter
  /\ cameraCalls' = IF r.cameraCalled THEN cameraCalls + 1 ELSE cameraCalls

\* one frame: the call r of orbitControl in draw(), then the next sample
Frame(r) ==
  /\ CameraSink(r)
  /\ last' = r
  /\ prev' = last
  /\ frameCount' = frameCount + 1
  /\ NextSample
  /\ UNCHANGED <<variant, args, mouseX, mouseY, mouseIsPressed, mouseButton,
                 mouseWheelDeltaY, shiftDown>>

\* one frame of a sketch whose draw() calls the right-button orbitControl
DrawScroll ==
  /\ frameCount < MaxFrames
  /\ variant = "scroll"
  /\ Frame(OrbitControlScroll)

\* one frame of a sketch whose draw() calls the shift orbitControl
DrawShift ==
  /\ frameCount < MaxFrames
  /\ variant = "shift"
  /\ Frame(OrbitControlShift)

Next ==
  \/ \E b \in {LEFT, RIGHT} : MousePressed(b)
  \/ MouseReleased
  \/ \E p \in MousePositions : MouseMoved(p)
  \/ \E d \in WheelDeltas : MouseWheel(d)
  \/ ShiftKey
  \/ DrawScroll
  \/ DrawShift

Spec == Init /\ [][Next]_vars

\* ------------------------------------------------------------ claims

\* rounding allowed when a length or an angle is read back from the eye that
\* the reconversion wrote: one world unit, a hundredth of a radian
LenTol == LS
AngTol == AS \div 100

Near(a, b, tol) == Abs(a - b) <= tol
VecNear(a, b, tol) ==
  Near(a[1], b[1], tol) /\ Near(a[2], b[2], tol) /\ Near(a[3], b[3], tol)
\* two angles equal up to whole turns and tol
AngleNear(a, b, tol) ==
  LET w == Wrap(a - b) IN w <= tol \/ TWO_PI - w <= tol

\* squared pointer displacement of a call
Displacement2(r) == r.dx * r.dx + r.dy * r.dy

\* a call with no button held and the wheel delta as it was
Idle(r) == r.called /\ ~r.pressed /\ r.wheel = r.pwheel

\* a call that rotates by the pointer and neither pans nor zooms
PureRotate(r) == r.rot /\ r.rotated /\ r.pressed /\ ~r.pan /\ r.wheel = r.pwheel

InRadiusRange(x) == MinRadius <= x /\ x <= MaxRadius

\* C1 (as stated): after every active frame, pan, rotate or zoom, whatever the
\* camera was before, the distance of the eye handed to the camera sink from
\* the center lies in [50, 2000].
C1_RadiusAfterEveryActiveFrame ==
  last.active =>
    /\ Distance(camera, cameraCenter) >= MinRadius - LenTol
    /\ Distance(camera, cameraCenter) <= MaxRadius + LenTol

\* C1 (amended): after every frame on which the rotation & zoom block of the
\* right-button revision runs, the radius used for the reconversion lies in
\* [50, 2000], and the eye handed to the camera sink is at that distance from
\* the center; every other active frame leaves the distance as it was.
C1_RadiusAfterRotateZoomBlock ==
  /\ (variant = "scroll" /\ last.rot) =>
       /\ InRadiusRange(last.radius)
       /\ Near(Distance(camera, cameraCenter), last.radius, LenTol)
  /\ (last.active /\ ~(variant = "scroll" /\ last.rot)) =>
       Near(Distance(camera, cameraCenter),
            Distance(last.eye0, last.center0), LenTol)

\* a zoom past 2000 that the clamp cut back
C1_Witness ==
  /\ variant = "scroll" /\ last.rot
  /\ last.scrolled /\ last.zoomed > MaxRadius /\ last.radius = MaxRadius

\* C2: on every rotate-mode frame the phi used for the reconversion satisfies
\* 0 < phi <= pi.
C2_PhiInRange ==
  last.rot => (0 < last.phi /\ last.phi <= PI)

\* a rotate frame whose phi fell to 0 or below and became 0.001
C2_Witness ==
  /\ last.rot /\ last.rotated /\ last.phiRaw <= 0 /\ last.phi = PhiEpsilon

\* C3: a frame with no button held and the wheel delta unchanged leaves eye
\* and center as they were and calls the camera sink not at all, and so do two
\* such frames in a row.
C3_IdleFramesAreNoOps ==
  /\ Idle(last) =>
       /\ camera = last.eye0
       /\ cameraCenter = last.center0
       /\ ~last.cameraCalled
  /\ (Idle(prev) /\ Idle(last)) =>
       /\ camera = prev.eye0
       /\ cameraCenter = prev.center0

\* an idle frame after a release, with the pointer moved
C3_Witness ==
  /\ Idle(last) /\ last.button = LEFT /\ last.dx # 0
  /\ cameraCalls > 0

\* C4 (as stated): on every frame in which pan mode is triggered, eye - center
\* is the same after the frame as before it.
C4_PanPreservesViewVector ==
  last.pan =>
    VecNear(VSub(camera, cameraCenter), VSub(last.eye0, last.center0), LenTol)

\* C4 (amended): on every frame in which pan mode is triggered and the
\* rotation & zoom block does not run as well, eye - center is the same after
\* the frame as before it.
C4_PanAlonePreservesViewVector ==
  (last.pan /\ ~last.rot) =>
    VecNear(VSub(camera, cameraCenter), VSub(last.eye0, last.center0), 0)

\* a pan that moved the camera
C4_Witness ==
  /\ last.pan /\ ~last.rot
  /\ camera # last.eye0 /\ cameraCenter # last.center0

\* two pure rotate frames in a row, the second with the first's delta negated
Reversal ==
  /\ PureRotate(prev) /\ PureRotate(last)
  /\ last.dx = -prev.dx /\ last.dy = -prev.dy
  /\ (prev.dx # 0 \/ prev.dy # 0)

\* theta, phi and radius after the second frame are those before the first
Restored ==
  /\ AngleNear(last.theta, prev.theta0, AngTol)
  /\ Near(last.phi, prev.phi0, AngTol)
  /\ Near(prev.radius, prev.radius0, LenTol)
  /\ Near(last.radius, prev.radius0, LenTol)

\* C5 (as stated): a rotate frame with delta (dx, dy) followed by one with
\* (-dx, -dy) returns theta and phi to their values, radius the same throughout.
C5_RotationReversible ==
  Reversal => Restored

\* C5 (amended): it does so when the first frame's phi is not clamped and, in
\* the right-button revision, the radius is within [50, 2000]; theta up to
\* whole turns.
C5_RotationReversibleUnclamped ==
  ( /\ Reversal
    /\ 0 < prev.phiRaw /\ prev.phiRaw <= PI
    /\ (variant = "scroll" => InRadiusRange(prev.radius0)) ) => Restored

\* a reversal in both angles with no clamp
C5_Witness ==
  /\ Reversal /\ prev.dx # 0 /\ prev.dy # 0
  /\ 0 < prev.phiRaw /\ prev.phiRaw <= PI
  /\ (variant = "scroll" => InRadiusRange(prev.radius0))
  /\ prev.phi # prev.phi0

\* C6 (as stated): a frame whose squared pointer displacement exceeds 200 is
\* discarded: eye and center are unchanged though a button is held.
C6_JitterGuard ==
  (last.called /\ last.pressed /\ Displacement2(last) > 200) =>
    /\ camera = last.eye0
    /\ cameraCenter = last.center0

\* C6 (amended): neither revision discards such a frame: the camera sink is
\* called, and in rotate mode theta and the phi before clamping advance by the
\* full 0.1 * sensitivity * delta.
C6_NoJitterGuard ==
  (last.called /\ last.pressed /\ Displacement2(last) > 200) =>
    /\ last.cameraCalled
    /\ last.pan \/ last.rot
    /\ last.rotated =>
         /\ last.theta = last.theta0 + last.sx * last.dx * (AS \div 10)
         /\ last.phiRaw = last.phi0 + last.sy * last.dy * (AS \div 10)

\* a rotate frame with a displacement over the threshold that moved the eye
C6_Witness ==
  /\ last.pressed /\ Displacement2(last) > 200
  /\ last.rotated /\ camera # last.eye0

\* C7 (as stated): a pure rotate frame leaves center where it was and
\* |eye - center| as it was.
C7_RotateHoldsPivotAndDistance ==
  PureRotate(last) =>
    /\ cameraCenter = last.center0
    /\ Near(Distance(camera, cameraCenter),
            Distance(last.eye0, last.center0), LenTol)

\* C7 (amended): it does so in the shift revision, and in the right-button
\* revision when the distance before the frame is within [50, 2000].
C7_RotateHoldsPivotAndDistanceInRange ==
  (PureRotate(last) /\ (variant = "scroll" => InRadiusRange(last.radius0))) =>
    /\ cameraCenter = last.center0
    /\ Near(Distance(camera, cameraCenter),
            Distance(last.eye0, last.center0), LenTol)

\* a pure rotate frame that moved the eye
C7_Witness ==
  /\ PureRotate(last) /\ (variant = "scroll" => InRadiusRange(last.radius0))
  /\ last.theta # last.theta0 /\ last.phi # last.phi0
  /\ camera # last.eye0

\* C8 (as stated): in no call are both the pan offsets and the rotate / zoom
\* spherical update with its reconversion applied.
C8_ModesExclusive ==
  ~(last.pan /\ last.rot)

\* C8 (amended): in no call are both the pan offsets and the pointer's
\* rotation of theta and phi applied; the shift revision never pans and
\* reconverts in one call; the right-button revision does both only on a frame
\* where the wheel delta changed.
C8_PanAndPointerRotationExclusive ==
  /\ ~(last.pan /\ last.rotated)
  /\ variant = "shift" => ~(last.pan /\ last.rot)
  /\ (last.pan /\ last.rot) => last.scrolled

\* a frame that panned and zoomed
C8_Witness ==
  /\ last.pan /\ last.rot /\ camera # last.eye0 /\ cameraCenter # last.center0
  /\ last.zoomed # last.radius0

\* C9 (as stated): where the wheel delta is greater than the previous sample
\* the radius before clamping is increased by 10, where smaller decreased by 10.
C9_ZoomFollowsChange ==
  (variant = "scroll" /\ last.rot) =>
    /\ last.wheel > last.pwheel => last.zoomed = last.radius0 + ZoomAmount
    /\ last.wheel < last.pwheel => last.zoomed = last.radius0 - ZoomAmount

\* C9 (amended): where the wheel delta changed, the radius before clamping is
\* increased by 10 if the current wheel delta is above 1, decreased by 10 if it
\* is below -1, and otherwise as computed.
C9_ZoomFollowsSign ==
  (variant = "scroll" /\ last.rot) =>
    last.zoomed =
      IF last.wheel # last.pwheel /\ last.wheel > 1 THEN last.radius0 + ZoomAmount
      ELSE IF last.wheel # last.pwheel /\ last.wheel < -1 THEN last.radius0 - ZoomAmount
      ELSE last.radius0

\* a wheel delta smaller than the previous sample that zoomed out
C9_Witness ==
  /\ variant = "scroll" /\ last.rot
  /\ last.wheel < last.pwheel /\ last.zoomed = last.radius0 + ZoomAmount

\* C10: on a frame where the wheel delta changed and no button is held,
\* whichever was pressed last, theta, phi and center are unchanged.
C10_ZoomOnlyFramesDoNotRotateOrPan ==
  (variant = "scroll" /\ last.called /\ last.scrolled /\ ~last.pressed) =>
    /\ last.theta = last.theta0
    /\ last.phiRaw = last.phi0
    /\ cameraCenter = last.center0

====
